---------------------------- MODULE Spec2Model ----------------------------
(***************************************************************************)
(* A model of examples/dqn_atari.py: the AtariProcessor (frame             *)
(* preprocessing, reward clipping, batch normalisation, optional video     *)
(* recording) and the module-level driver that parses the command line,    *)
(* builds the agent and runs either the train or the test flow.            *)
(*                                                                         *)
(* Images are modelled as constant-colour images: a shape (or PIL size)    *)
(* plus the one pixel value every position holds.  Every PIL resampling    *)
(* filter maps a constant image to the same constant, so the model is      *)
(* exact on these inputs.  float32 values are modelled exactly, as         *)
(* mantissa/exponent pairs m * 2^(-e).  Rewards are rationals num/RewardDen.*)
(***************************************************************************)
EXTENDS Integers, Sequences, FiniteSets, TLC

VARIABLES
    pc,               \* the driver's position ("calls": a processor driven by any caller)
    args,             \* the parsed command line (lines 92-98)
    weightsFileExists,\* environment: whether the weights file to load exists
    constructed,      \* whether `processor` is bound (line 127 has completed)
    show,             \* self.show
    out_file,         \* self.out_file (a path, as its components)
    writer,           \* self.writer: no attribute, None, or a VideoWriter (open / closed)
    call,             \* the latest call of a processor method: arguments and outcome
    nCalls,           \* number of processor method calls so far
    nObsOk,           \* number of process_observation calls that returned a frame
    writersCreated,   \* number of cv2.VideoWriter objects constructed
    framesWritten,    \* number of frames appended to the video file
    events,           \* the agent methods the driver has invoked, in order
    files,            \* the file names handed to save_weights / load_weights
    failure           \* the uncaught exception that ended the driver, or "none"

procVars == <<show, out_file, writer>>
ghostVars == <<nObsOk, writersCreated, framesWritten>>
driverVars == <<pc, args, weightsFileExists, constructed, events, files, failure>>
vars == <<pc, args, weightsFileExists, constructed, show, out_file, writer, call,
          nCalls, nObsOk, writersCreated, framesWritten, events, files, failure>>

-----------------------------------------------------------------------------
(* Bounds of the model *)

MaxCalls == 3        \* processor method calls per run
MaxReward == 20      \* rewards range over -MaxReward..MaxReward, in units of 1/RewardDen
RewardDen == 2       \* denominator of the modelled rewards (2: halves, so 0.5 is a reward)
MaxBatchLen == 2     \* longest modelled batch (flattened)

(* Program constants *)

UINT8_MAX == 255
FRAME_WIDTH == 640
FRAME_HEIGHT == 480
F32_MANT_BITS == 24

INPUT_SHAPE == <<84, 84>>
WINDOW_LENGTH == 4

-----------------------------------------------------------------------------
(* Values *)

None == "None"
NoAttr == "<no attribute>"
NoPath == <<>>
NoValue == [kind |-> "none"]
NoCall == [op |-> "none", arg |-> NoValue, argAfter |-> NoValue, result |-> NoValue,
           raised |-> "none", touchedWriter |-> FALSE]

Min(a, b) == IF a <= b THEN a ELSE b
Max(a, b) == IF a >= b THEN a ELSE b
Abs(a) == IF a >= 0 THEN a ELSE -a

(* os.path.join(a, b): TypeError when a is None *)
PathJoinRaises(a) == a = None
PathJoin(a, b) == <<a, b>>

-----------------------------------------------------------------------------
(* numpy / PIL / cv2 operations used by process_observation *)

Array(shape, px) == [kind |-> "array", shape |-> shape, dtype |-> "uint8", px |-> px]
NDim(a) == Len(a.shape)

(* Image.fromarray: a (h, w) uint8 array is an "L" image, (h, w, 3) an "RGB"     *)
(* image, both of size (w, h); anything else modelled here is not an image.      *)
FromArrayRaises(a) ==
    ~ (NDim(a) = 2 \/ (NDim(a) = 3 /\ a.shape[3] = 3))
FromArray(a) ==
    [mode |-> IF NDim(a) = 2 THEN "L" ELSE "RGB",
     size |-> <<a.shape[2], a.shape[1]>>,
     px   |-> a.px]

(* Image.resize(size): a constant image stays constant under every filter *)
PILResizeKeepsSize(img, size) == img
PILResize(img, size) == [img EXCEPT !.size = size]

(* Image.convert('L'): ITU-R 601-2 luma, L = (19595 R + 38470 G + 7471 B + 0x8000) >> 16 *)
Luma(px) == (19595 * px[1] + 38470 * px[2] + 7471 * px[3] + 32768) \div 65536
PILConvertL(img) ==
    IF img.mode = "L" THEN img
    ELSE [mode |-> "L", size |-> img.size, px |-> <<Luma(img.px)>>]

(* np.array(img): shape (height, width) for "L", (height, width, 3) for "RGB" *)
NpArray(img) ==
    Array(IF img.mode = "L" THEN <<img.size[2], img.size[1]>>
                            ELSE <<img.size[2], img.size[1], 3>>,
          img.px)

(* cv2.resize(a, (width, height)) *)
Cv2Resize(a, size) ==
    [a EXCEPT !.shape = IF NDim(a) = 2 THEN <<size[2], size[1]>>
                        ELSE <<size[2], size[1], a.shape[3]>>]

(* ndarray.astype('uint8') of an integer array: values wrap modulo 256 *)
AsTypeUint8(a) ==
    [a EXCEPT !.dtype = "uint8", !.px = [i \in DOMAIN a.px |-> a.px[i] % (UINT8_MAX + 1)]]

-----------------------------------------------------------------------------
(* float32 arithmetic used by process_state_batch.  A float32 is            *)
(* [m |-> mantissa, e |-> exponent], the number m * 2^(-e), with            *)
(* 2^23 <= m < 2^24 unless it is zero.                                      *)

RECURSIVE F32Norm(_, _, _, _)
F32Norm(q, r, e, d) ==
    IF q >= 2 ^ (F32_MANT_BITS - 1) THEN [q |-> q, r |-> r, e |-> e]
    ELSE F32Norm(2 * q + (IF 2 * r >= d THEN 1 ELSE 0), (2 * r) % d, e + 1, d)

(* x / d for integers 0 <= x, 0 < d, both exact float32 values: IEEE-754    *)
(* division, rounded to nearest, ties to even.                              *)
F32Div(x, d) ==
    IF x = 0 THEN [m |-> 0, e |-> 0]
    ELSE LET n  == F32Norm(x \div d, x % d, 0, d)
             up == 2 * n.r > d \/ (2 * n.r = d /\ n.q % 2 = 1)
             m  == n.q + (IF up THEN 1 ELSE 0)
         IN  IF m = 2 ^ F32_MANT_BITS
             THEN [m |-> 2 ^ (F32_MANT_BITS - 1), e |-> n.e - 1]
             ELSE [m |-> m, e |-> n.e]

-----------------------------------------------------------------------------
(* AtariProcessor *)

(* __init__(show, output_dir) *)
AtariProcessorInit(show_, output_dir) ==
    IF show_ /\ PathJoinRaises(output_dir)
    THEN [raised |-> "TypeError", show |-> show_, out_file |-> NoAttr, writer |-> NoAttr]
    ELSE IF show_
    THEN [raised |-> "none", show |-> show_,
          out_file |-> PathJoin(output_dir, "atari_playback.avi"), writer |-> None]
    ELSE [raised |-> "none", show |-> show_, out_file |-> NoAttr, writer |-> NoAttr]

(* assert observation.ndim == 3 *)
ObservationAssertOff(observation) == TRUE
ObservationAssert(observation) == NDim(observation) = 3

(* the frame process_observation computes before the video side effect *)
ProcessedObservation(observation) ==
    NpArray(PILConvertL(PILResize(FromArray(observation), INPUT_SHAPE)))

(* if self.show: *)
ShowGuardOff(show_) == TRUE
ShowGuard(show_) == show_

(* self.writer.release(): the VideoWriter object stays bound, released *)
WriterReleaseUnbinds(w) == None
WriterRelease(w) == "closed"

(* np.clip(reward, -1., 1.) on rewards num / RewardDen *)
ClipLowerOnly(num, lo, hi) == Max(num, lo)
Clip(num, lo, hi) == Min(Max(num, lo), hi)
ProcessReward(num) == Clip(num, -1 * RewardDen, 1 * RewardDen)

(* batch.astype('float32') / 255., element by element *)
ProcessStateBatchElem256(x) == F32Div(x, UINT8_MAX + 1)
ProcessStateBatchElem(x) == F32Div(x, UINT8_MAX)

Reward(num) == [kind |-> "scalar", num |-> num]
Batch(dtype, elems) == [kind |-> "batch", dtype |-> dtype, elems |-> elems]

(* process_observation(observation): lines 56-74 *)
ProcessObservation(observation) ==
    /\ nCalls' = nCalls + 1
    /\ UNCHANGED <<show, out_file>>
    /\ IF ~ObservationAssert(observation)
       THEN /\ call' = [op |-> "process_observation", arg |-> observation,
                        argAfter |-> observation, result |-> NoValue,
                        raised |-> "AssertionError", touchedWriter |-> FALSE]
            /\ UNCHANGED <<writer, nObsOk, writersCreated, framesWritten>>
       ELSE IF FromArrayRaises(observation)
       THEN /\ call' = [op |-> "process_observation", arg |-> observation,
                        argAfter |-> observation, result |-> NoValue,
                        raised |-> "TypeError", touchedWriter |-> FALSE]
            /\ UNCHANGED <<writer, nObsOk, writersCreated, framesWritten>>
       ELSE LET img == FromArray(observation)
                processed_observation == ProcessedObservation(observation)
                po == Cv2Resize(NpArray(img), <<FRAME_WIDTH, FRAME_HEIGHT>>)
                shown == ShowGuard(show)
                noattr == shown /\ writer = NoAttr
                create == shown /\ writer = None
                w1 == IF create THEN "open" ELSE writer
                shapeOk == processed_observation.shape = INPUT_SHAPE
                raised == IF noattr THEN "AttributeError"
                          ELSE IF ~shapeOk THEN "AssertionError" ELSE "none"
            IN  /\ writer' = IF noattr THEN writer ELSE w1
                /\ writersCreated' = writersCreated + (IF create THEN 1 ELSE 0)
                /\ framesWritten' = framesWritten +
                       (IF shown /\ ~noattr /\ w1 = "open" /\ po.shape[2] = FRAME_WIDTH
                        THEN 1 ELSE 0)
                /\ nObsOk' = nObsOk + (IF raised = "none" THEN 1 ELSE 0)
                /\ call' = [op |-> "process_observation", arg |-> observation,
                            argAfter |-> observation,
                            result |-> IF raised = "none"
                                       THEN AsTypeUint8(processed_observation)
                                       ELSE NoValue,
                            raised |-> raised, touchedWriter |-> shown]

(* process_state_batch(batch): lines 76-81 *)
ProcessStateBatch(batch) ==
    /\ nCalls' = nCalls + 1
    /\ call' = [op |-> "process_state_batch", arg |-> batch, argAfter |-> batch,
                result |-> Batch("float32",
                                 [i \in DOMAIN batch.elems |->
                                     ProcessStateBatchElem(batch.elems[i])]),
                raised |-> "none", touchedWriter |-> FALSE]
    /\ UNCHANGED <<procVars, ghostVars>>

(* process_reward(reward): lines 83-84 *)
ProcessRewardCall(reward) ==
    /\ nCalls' = nCalls + 1
    /\ call' = [op |-> "process_reward", arg |-> reward, argAfter |-> reward,
                result |-> Reward(ProcessReward(reward.num)),
                raised |-> "none", touchedWriter |-> FALSE]
    /\ UNCHANGED <<procVars, ghostVars>>

(* finish(): lines 86-89 *)
Finish ==
    /\ nCalls' = nCalls + 1
    /\ UNCHANGED <<show, out_file, ghostVars>>
    /\ IF ShowGuard(show)
       THEN IF writer \in {None, NoAttr}
            THEN \* None.release(), or no attribute `writer` at all
                 /\ call' = [op |-> "finish", arg |-> NoValue, argAfter |-> NoValue,
                             result |-> NoValue, raised |-> "AttributeError",
                             touchedWriter |-> TRUE]
                 /\ UNCHANGED writer
            ELSE /\ call' = [op |-> "finish", arg |-> NoValue, argAfter |-> NoValue,
                             result |-> NoValue, raised |-> "none",
                             touchedWriter |-> TRUE]
                 /\ writer' = WriterRelease(writer)
       ELSE /\ call' = [op |-> "finish", arg |-> NoValue, argAfter |-> NoValue,
                        result |-> NoValue, raised |-> "none", touchedWriter |-> FALSE]
            /\ UNCHANGED writer

-----------------------------------------------------------------------------
(* Inputs *)

ImageShapes == {<<210, 160, 3>>, <<84, 84, 3>>, <<250, 160, 3>>}
Pixels == {<<0, 0, 0>>, <<200, 72, 72>>, <<255, 255, 255>>}

(* frames of an image environment, the RAM observation of a "-ram" environment, *)
(* and arrays of 2 and 4 axes                                                   *)
ImageObservations == {Array(sh, p) : sh \in ImageShapes, p \in Pixels}
RamObservations == {Array(<<128>>, <<0>>)}
Observations ==
    ImageObservations \cup RamObservations
    \cup {Array(<<210, 160>>, <<128>>), Array(<<1, 210, 160, 3>>, <<128, 128, 128>>)}

Rewards == {Reward(n) : n \in -MaxReward .. MaxReward}

BatchSamples == {0, 255}
RECURSIVE SeqsOf(_, _)
SeqsOf(S, n) ==
    IF n = 0 THEN {<<>>}
    ELSE {Append(s, x) : s \in SeqsOf(S, n - 1), x \in S}
(* every uint8 value alone, and the longer batches over the extreme values *)
Batches ==
    {Batch("uint8", <<x>>) : x \in 0 .. UINT8_MAX}
    \cup {Batch("uint8", s) : s \in UNION {SeqsOf(BatchSamples, n) : n \in 2 .. MaxBatchLen}}
(* the batches an agent loop samples in the small runs: one temporal window *)
WindowBatches ==
    {Batch("uint8", [i \in 1 .. WINDOW_LENGTH |-> x]) : x \in {0, 128, 255}}

Modes == {"train", "test"}
EnvNames == {"BreakoutDeterministic-v4", "Breakout-ram-v4"}
Args == [mode : Modes, env_name : EnvNames, weights : {None, "w.h5f"},
         output_dir : {None, "out"}, show : BOOLEAN]

-----------------------------------------------------------------------------
(* A processor driven by an arbitrary caller *)

Init ==
    /\ pc = "calls"
    /\ args \in Args
    /\ AtariProcessorInit(args.show, args.output_dir).raised = "none"
    /\ weightsFileExists = TRUE
    /\ constructed = TRUE
    /\ show = AtariProcessorInit(args.show, args.output_dir).show
    /\ out_file = AtariProcessorInit(args.show, args.output_dir).out_file
    /\ writer = AtariProcessorInit(args.show, args.output_dir).writer
    /\ call = NoCall
    /\ nCalls = 0
    /\ nObsOk = 0
    /\ writersCreated = 0
    /\ framesWritten = 0
    /\ events = <<>>
    /\ files = [saved |-> NoPath, loaded |-> NoPath]
    /\ failure = "none"

CallProcessObservation(inputs) ==
    /\ pc = "calls" /\ nCalls < MaxCalls
    /\ \E observation \in inputs : ProcessObservation(observation)
    /\ UNCHANGED driverVars

CallProcessStateBatch(inputs) ==
    /\ pc = "calls" /\ nCalls < MaxCalls
    /\ \E batch \in inputs : ProcessStateBatch(batch)
    /\ UNCHANGED driverVars

CallProcessReward(inputs) ==
    /\ pc = "calls" /\ nCalls < MaxCalls
    /\ \E reward \in inputs : ProcessRewardCall(reward)
    /\ UNCHANGED driverVars

CallFinish ==
    /\ pc = "calls" /\ nCalls < MaxCalls
    /\ Finish
    /\ UNCHANGED driverVars

Next ==
    \/ CallProcessObservation(Observations)
    \/ CallProcessStateBatch(WindowBatches)
    \/ CallProcessReward(Rewards)
    \/ CallFinish

Spec == Init /\ [][Next]_vars

(* The same processor, with process_state_batch applied to every uint8 value, *)
(* as the last call of every sequence of the other calls                      *)
BatchSeen == call.op = "process_state_batch"

NextBatch ==
    \/ ~BatchSeen /\ CallProcessObservation({Array(<<210, 160, 3>>, <<200, 72, 72>>)})
    \/ ~BatchSeen /\ CallProcessStateBatch(Batches)
    \/ ~BatchSeen /\ CallFinish

SpecBatch == Init /\ [][NextBatch]_vars

-----------------------------------------------------------------------------
(* The driver: lines 92-187 *)

(* the observations env.step / env.reset hand to the agent loop *)
EnvObservations(env_name) ==
    IF env_name = "Breakout-ram-v4" THEN RamObservations
    ELSE {Array(<<210, 160, 3>>, p) : p \in Pixels}
EnvRewards == {Reward(n * RewardDen) : n \in {0, 1, 4}}

(* if args.mode == 'train': ... elif args.mode == 'test': ... *)
DispatchAlwaysTrain(mode) == "fit"
Dispatch(mode) ==
    IF mode = "train" THEN "fit" ELSE IF mode = "test" THEN "load_weights" ELSE "done"

(* weights_filename of the train flow: lines 153, 159-162 *)
TrainWeightsFilename(a) ==
    IF a.output_dir # None THEN <<a.output_dir, "dqn_weights.h5f">> ELSE <<"dqn_weights.h5f">>
(* weights_filename of the test flow: lines 178-185 *)
TestWeightsFilename(a) ==
    IF a.weights # None THEN <<a.weights>>
    ELSE IF a.output_dir # None THEN <<a.output_dir, "dqn_weights.h5f">>
    ELSE <<"dqn_weights.h5f">>

InitDriver ==
    /\ pc = "construct"
    /\ args \in Args
    /\ weightsFileExists \in BOOLEAN
    /\ constructed = FALSE
    /\ show = FALSE
    /\ out_file = NoAttr
    /\ writer = NoAttr
    /\ call = NoCall
    /\ nCalls = 0
    /\ nObsOk = 0
    /\ writersCreated = 0
    /\ framesWritten = 0
    /\ events = <<>>
    /\ files = [saved |-> NoPath, loaded |-> NoPath]
    /\ failure = "none"

(* processor = AtariProcessor(args.show, args.output_dir): line 127 *)
Construct ==
    /\ pc = "construct"
    /\ LET r == AtariProcessorInit(args.show, args.output_dir)
       IN  IF r.raised # "none"
           THEN /\ pc' = "crashed"
                /\ failure' = r.raised
                /\ UNCHANGED <<constructed, procVars>>
           ELSE /\ pc' = "compile"
                /\ constructed' = TRUE
                /\ show' = r.show
                /\ out_file' = r.out_file
                /\ writer' = r.writer
                /\ UNCHANGED failure
    /\ UNCHANGED <<args, weightsFileExists, call, nCalls, ghostVars, events, files>>

(* dqn = DQNAgent(...); dqn.compile(...): lines 144-147, then the dispatch on args.mode *)
Compile ==
    /\ pc = "compile"
    /\ events' = Append(events, "compile")
    /\ pc' = Dispatch(args.mode)
    /\ UNCHANGED <<args, weightsFileExists, constructed, procVars, call, nCalls,
                   ghostVars, files, failure>>

(* dqn.fit(...): line 168, entering the agent loop *)
FitCall ==
    /\ pc = "fit"
    /\ events' = Append(events, "fit")
    /\ pc' = "in_fit"
    /\ UNCHANGED <<args, weightsFileExists, constructed, procVars, call, nCalls,
                   ghostVars, files, failure>>

(* the agent loop calls back into the processor; an exception of a callback is uncaught *)
AfterCallback ==
    /\ IF call'.raised # "none"
       THEN pc' = "crashed" /\ failure' = call'.raised
       ELSE UNCHANGED <<pc, failure>>
    /\ UNCHANGED <<args, weightsFileExists, constructed, events, files>>

LoopProcessObservation ==
    /\ pc \in {"in_fit", "in_test"} /\ nCalls < MaxCalls
    /\ \E observation \in EnvObservations(args.env_name) : ProcessObservation(observation)
    /\ AfterCallback

LoopProcessReward ==
    /\ pc \in {"in_fit", "in_test"} /\ nCalls < MaxCalls /\ nObsOk > 0
    /\ \E reward \in EnvRewards : ProcessRewardCall(reward)
    /\ AfterCallback

LoopProcessStateBatch ==
    /\ pc \in {"in_fit", "in_test"} /\ nCalls < MaxCalls /\ nObsOk > 0
    /\ \E batch \in WindowBatches : ProcessStateBatch(batch)
    /\ AfterCallback

(* fit returns: its step budget is used up, or training was interrupted (fit *)
(* catches the interrupt and returns)                                       *)
FitReturn ==
    /\ pc = "in_fit"
    /\ pc' = "save_weights"
    /\ UNCHANGED <<args, weightsFileExists, constructed, procVars, call, nCalls,
                   ghostVars, events, files, failure>>

(* dqn.save_weights(weights_filename, overwrite=True): line 171 *)
SaveWeights ==
    /\ pc = "save_weights"
    /\ events' = Append(events, "save_weights")
    /\ files' = [files EXCEPT !.saved = TrainWeightsFilename(args)]
    /\ pc' = "finish"
    /\ UNCHANGED <<args, weightsFileExists, constructed, procVars, call, nCalls,
                   ghostVars, failure>>

(* processor.finish(): line 172 *)
FinishCall ==
    /\ pc = "finish"
    /\ events' = Append(events, "finish")
    /\ Finish
    /\ IF call'.raised # "none"
       THEN pc' = "crashed" /\ failure' = call'.raised
       ELSE pc' = "done" /\ UNCHANGED failure
    /\ UNCHANGED <<args, weightsFileExists, constructed, files>>

(* dqn.load_weights(weights_filename): line 186 *)
LoadWeights ==
    /\ pc = "load_weights"
    /\ events' = Append(events, "load_weights")
    /\ files' = [files EXCEPT !.loaded = TestWeightsFilename(args)]
    /\ IF weightsFileExists
       THEN pc' = "test" /\ UNCHANGED failure
       ELSE pc' = "crashed" /\ failure' = "OSError"
    /\ UNCHANGED <<args, weightsFileExists, constructed, procVars, call, nCalls, ghostVars>>

(* dqn.test(env, nb_episodes=10, visualize=False): line 187 *)
TestCall ==
    /\ pc = "test"
    /\ events' = Append(events, "test")
    /\ pc' = "in_test"
    /\ UNCHANGED <<args, weightsFileExists, constructed, procVars, call, nCalls,
                   ghostVars, files, failure>>

TestReturn ==
    /\ pc = "in_test"
    /\ pc' = "done"
    /\ UNCHANGED <<args, weightsFileExists, constructed, procVars, call, nCalls,
                   ghostVars, events, files, failure>>

NextDriver ==
    \/ Construct
    \/ Compile
    \/ FitCall
    \/ LoopProcessObservation
    \/ LoopProcessReward
    \/ LoopProcessStateBatch
    \/ FitReturn
    \/ SaveWeights
    \/ FinishCall
    \/ LoadWeights
    \/ TestCall
    \/ TestReturn

SpecDriver == InitDriver /\ [][NextDriver]_vars

-----------------------------------------------------------------------------
(* Helpers of the properties *)

FinishCount == Cardinality({i \in DOMAIN events : events[i] = "finish"})
IsPrefix(s, t) == Len(s) <= Len(t) /\ \A i \in DOMAIN s : s[i] = t[i]
TrainFlow == <<"compile", "fit", "save_weights", "finish">>
TestFlow == <<"compile", "load_weights", "test">>

(* a processor method was called in this step *)
Called(op) == nCalls' = nCalls + 1 /\ call'.op = op

(* Exact arithmetic on numbers beyond 32 bits: hi * 2^12 + lo *)
Limb == 2 ^ 12
WideMul(m, k) ==
    [hi |-> (m \div Limb) * k + ((m % Limb) * k) \div Limb, lo |-> ((m % Limb) * k) % Limb]
WideShl(x, e) ==
    IF e >= 12 THEN [hi |-> x * 2 ^ (e - 12), lo |-> 0]
    ELSE [hi |-> (x * 2 ^ e) \div Limb, lo |-> (x * 2 ^ e) % Limb]
WideLeq(a, b) == a.hi < b.hi \/ (a.hi = b.hi /\ a.lo <= b.lo)
WideAbsDiffLeq(a, b, t) ==
    Abs(a.hi - b.hi) <= 1 /\ Abs((a.hi - b.hi) * Limb + a.lo - b.lo) <= t

(* the float32 f is a normalised float32 (zero, or a 24-bit mantissa) *)
F32Normal(f) ==
    \/ f.m = 0 /\ f.e = 0
    \/ 2 ^ (F32_MANT_BITS - 1) <= f.m /\ f.m < 2 ^ F32_MANT_BITS
(* f = x / d exactly: m * d = x * 2^e *)
F32IsQuotient(f, x, d) == WideMul(f.m, d) = WideShl(x, f.e)
(* |f - x / d| is at most half a unit in the last place of f: 2 |m d - x 2^e| <= d *)
F32NearestQuotient(f, x, d) ==
    WideAbsDiffLeq(WideMul(f.m, d), WideShl(x, f.e), d \div 2)
(* 0 <= f <= 1 *)
F32InUnit(f) == f.m >= 0 /\ WideLeq(WideMul(f.m, 1), WideShl(1, f.e))
F32IsOne(f) == WideMul(f.m, 1) = WideShl(1, f.e)

-----------------------------------------------------------------------------
(* C1: every completed run of the driver with show=True, in train mode as   *)
(* well as in test mode, ends with the writer it opened closed by finish,   *)
(* finish having been invoked exactly once (never twice), and never with    *)
(* the writer still open.  The code does not do this: the test flow never   *)
(* invokes finish, so a test run with --show ends with the writer open.     *)
C1_WriterClosedOnceAtEnd ==
    (pc = "done" /\ show) =>
        /\ writer # "open"
        /\ FinishCount <= 1
        /\ (writersCreated > 0 => writer = "closed" /\ FinishCount = 1)

(* C2: with show=True at most one video writer is ever created: none exists *)
(* before the first successfully processed observation, exactly one after   *)
(* it, later observations reuse it, and a writer closed by finish is never  *)
(* re-created nor returned to the open state.                               *)
C2_OneWriterInv ==
    show =>
        /\ writersCreated <= 1
        /\ (nObsOk = 0 => writer = None /\ writersCreated = 0 /\ framesWritten = 0)
        /\ (nObsOk > 0 => writer \in {"open", "closed"} /\ writersCreated = 1)
C2_OneWriter ==
    /\ []C2_OneWriterInv
    /\ [][(writer = "closed" => writer' = "closed" /\ writersCreated' = writersCreated)
          /\ (writer = "open" => writersCreated' = writersCreated)]_vars
C2_Witness ==
    /\ show /\ writer = "closed" /\ writersCreated = 1
    /\ call.op = "process_observation" /\ call.raised = "none"

(* C3: with show=False finish does not raise and does not touch a video     *)
(* writer, whatever preceded it, and no operation ever creates a writer or  *)
(* writes a frame.                                                          *)
C3_NoShowNoWriter ==
    ~show =>
        /\ writer = NoAttr
        /\ writersCreated = 0
        /\ framesWritten = 0
        /\ ~call.touchedWriter
        /\ (call.op = "finish" => call.raised = "none")
C3_Witness ==
    ~show /\ call.op = "finish" /\ call.raised = "none" /\ nObsOk > 0 /\ nCalls = MaxCalls

(* C4: process_observation of an observation whose number of axes is not 3  *)
(* fails with an assertion before any side effect: no writer is created, no *)
(* frame is written, nothing is returned, and the processor's state is the  *)
(* one before the call, for show=True and show=False alike.                 *)
C4_BadShapeFailsFast ==
    [][(Called("process_observation") /\ NDim(call'.arg) # 3) =>
          /\ call'.raised = "AssertionError"
          /\ call'.result = NoValue
          /\ ~call'.touchedWriter
          /\ UNCHANGED <<show, out_file, writer, writersCreated, framesWritten, nObsOk>>]_vars
C4_Witness ==
    /\ call.op = "process_observation" /\ NDim(call.arg) # 3
    /\ call.raised = "AssertionError"
    /\ show /\ writer = "open" /\ framesWritten = 1

(* C5: process_reward(r) lies in [-1, 1], equals r when r is in [-1, 1], -1 *)
(* when r < -1 and 1 when r > 1, is idempotent, and has no side effect on   *)
(* the processor or the writer.                                             *)
C5_RewardClipped ==
    [][Called("process_reward") =>
          LET r == call'.arg.num
              c == call'.result.num
          IN  /\ -RewardDen <= c /\ c <= RewardDen
              /\ ((-RewardDen <= r /\ r <= RewardDen) => c = r)
              /\ (r < -RewardDen => c = -RewardDen)
              /\ (r > RewardDen => c = RewardDen)
              /\ ProcessReward(c) = c
              /\ call'.raised = "none"
              /\ call'.argAfter = call'.arg
              /\ ~call'.touchedWriter
              /\ UNCHANGED <<procVars, ghostVars>>]_vars
C5_Witness ==
    /\ call.op = "process_reward"
    /\ call.arg.num = 10 * RewardDen /\ call.result.num = RewardDen
    /\ show /\ writer = "open"

(* C6, as stated: for a batch of 8-bit values process_state_batch returns a *)
(* batch of the same shape whose every element equals the input element     *)
(* divided by 255 and lies in [0.0, 1.0] (0 to 0.0, 255 to 1.0); the input  *)
(* is not modified and the processor's state is unchanged.                  *)
C6_ExactQuotient ==
    [][Called("process_state_batch") =>
          LET in == call'.arg.elems
              out == call'.result.elems
          IN  /\ Len(out) = Len(in)
              /\ \A i \in DOMAIN in :
                    /\ F32IsQuotient(out[i], in[i], UINT8_MAX)
                    /\ F32InUnit(out[i])
              /\ call'.argAfter = call'.arg
              /\ UNCHANGED <<procVars, ghostVars>>]_vars

(* C6, amended: every element of the result is the float32 nearest to the   *)
(* input element divided by 255 (within half a unit in the last place; it   *)
(* equals the quotient exactly only for 0 and 255), lies in [0.0, 1.0], 0   *)
(* maps to 0.0 and 255 to 1.0; the result has the shape of the input, the   *)
(* input is not modified and the processor's state is unchanged.            *)
C6_NearestQuotient ==
    [][Called("process_state_batch") =>
          LET in == call'.arg.elems
              out == call'.result.elems
          IN  /\ Len(out) = Len(in)
              /\ call'.result.dtype = "float32"
              /\ \A i \in DOMAIN in :
                    /\ F32Normal(out[i])
                    /\ F32NearestQuotient(out[i], in[i], UINT8_MAX)
                    /\ F32InUnit(out[i])
                    /\ (in[i] = 0 => out[i].m = 0)
                    /\ (in[i] = UINT8_MAX => F32IsOne(out[i]))
                    /\ (F32IsQuotient(out[i], in[i], UINT8_MAX) <=> in[i] \in {0, UINT8_MAX})
              /\ call'.raised = "none"
              /\ call'.argAfter = call'.arg
              /\ UNCHANGED <<procVars, ghostVars>>]_vars
C6_Witness ==
    /\ call.op = "process_state_batch"
    /\ call.arg.elems = <<1>>
    /\ ~F32IsQuotient(call.result.elems[1], 1, UINT8_MAX)
    /\ show /\ writer = "open"

(* C7: for a valid 3-axis observation of any height and width               *)
(* process_observation returns a frame of shape exactly 84x84 with a single *)
(* channel and 8-bit unsigned elements in [0, 255]; no returned frame has   *)
(* another shape.                                                           *)
C7_FrameShape ==
    call.op = "process_observation" =>
        /\ (NDim(call.arg) = 3 /\ call.arg.shape[3] = 3) => call.raised = "none"
        /\ call.raised # "none" => call.result = NoValue
        /\ call.raised = "none" =>
              /\ call.result.kind = "array"
              /\ call.result.shape = <<84, 84>>
              /\ call.result.dtype = "uint8"
              /\ Len(call.result.px) = 1
              /\ call.result.px[1] \in 0 .. 255
C7_Witness ==
    /\ call.op = "process_observation" /\ call.raised = "none"
    /\ call.arg.shape = <<210, 160, 3>> /\ call.arg.px = <<200, 72, 72>>
    /\ call.result.shape = <<84, 84>> /\ call.result.px = <<110>>

(* C8: the driver runs exactly one of two flows.  Train: fit, save_weights, *)
(* finish, in this order, each once, and never load_weights or test (a      *)
(* --weights argument is not loaded).  Test: load_weights, test, in this    *)
(* order, each once, and never fit, save_weights or finish.  The agent is   *)
(* compiled before the first of these calls.                                *)
C8_TwoFlows ==
    LET flow == IF args.mode = "train" THEN TrainFlow ELSE TestFlow
    IN  /\ IsPrefix(events, flow)
        /\ (pc = "done" => events = flow)
        /\ (args.mode = "train" => files.loaded = NoPath)
        /\ (args.mode = "test" => files.saved = NoPath)
C8_Witness ==
    /\ pc = "done" /\ args.mode = "train" /\ args.weights # None
    /\ events = TrainFlow /\ files.saved # NoPath /\ nObsOk > 0

(* C9: with show=True finish completes without raising in every writer      *)
(* state reachable before it, not-yet-created included, and after finish    *)
(* the writer is not open.  The code does not do this: finish before the    *)
(* first processed observation calls release() on None.                     *)
C9_FinishNeverRaises ==
    (show /\ call.op = "finish") => (call.raised = "none" /\ writer # "open")

(* C10: for every combination of the options the parser accepts the driver  *)
(* constructs the processor without error and reaches its train or test     *)
(* invocation; --show without --output_dir is accepted.  The code does not  *)
(* do this: the constructor joins output_dir, which is None, to a file name.*)
C10_EveryOptionSetRuns ==
    /\ (pc = "crashed" => constructed /\ Len(events) >= 2)
    /\ (pc \notin {"construct", "crashed"} => constructed)

=============================================================================
